---- MODULE Spec2Model ----
(***************************************************************************)
(* pyseer_to_phandango_plot.py: conversion of a Pyseer result table into a *)
(* Phandango .plot track.  Text is modelled as sequences of one-character  *)
(* strings, so that splitting, lower-casing, int() and float() are         *)
(* computed the way the script computes them.                              *)
(***************************************************************************)
EXTENDS Integers, Sequences, FiniteSets, TLC

(***************************************************************************)
(* Bounds of the model.                                                    *)
(***************************************************************************)
MaxRows == 2
MaxCols == 3

None == <<"None">>

Max(a, b) == IF a >= b THEN a ELSE b

(***************************************************************************)
(* Characters and strings.                                                 *)
(***************************************************************************)
UpperAlpha ==
  <<"A","B","C","D","E","F","G","H","I","J","K","L","M",
    "N","O","P","Q","R","S","T","U","V","W","X","Y","Z">>
LowerAlpha ==
  <<"a","b","c","d","e","f","g","h","i","j","k","l","m",
    "n","o","p","q","r","s","t","u","v","w","x","y","z">>
Digits == <<"0","1","2","3","4","5","6","7","8","9">>
Whitespace == {" ", "\t", "\n", "\r"}

IsDigit(c) == \E i \in 1..10 : Digits[i] = c
DigitVal(c) == (CHOOSE i \in 1..10 : Digits[i] = c) - 1

\* str.lower() on one character and on a string
LowerChar(c) ==
  IF \E i \in 1..26 : UpperAlpha[i] = c
  THEN LowerAlpha[CHOOSE i \in 1..26 : UpperAlpha[i] = c]
  ELSE c
Lower(s) == [i \in 1..Len(s) |-> LowerChar(s[i])]

\* the `in` operator on strings: sub occurs in s
Contains(s, sub) ==
  \E k \in 0..(Len(s) - Len(sub)) : SubSeq(s, k + 1, k + Len(sub)) = sub

\* str.strip() with no argument
Strip(s) ==
  LET keep == {i \in 1..Len(s) : s[i] \notin Whitespace}
  IN  IF keep = {} THEN <<>>
      ELSE LET lo == CHOOSE i \in keep : \A j \in keep : i <= j
               hi == CHOOSE i \in keep : \A j \in keep : i >= j
           IN  SubSeq(s, lo, hi)

\* str.split(d) for a one-character separator d
RECURSIVE Split(_, _)
Split(s, d) ==
  IF \A i \in 1..Len(s) : s[i] # d THEN <<s>>
  ELSE LET k == CHOOSE i \in 1..Len(s) : s[i] = d /\ \A j \in 1..(i - 1) : s[j] # d
       IN  <<SubSeq(s, 1, k - 1)>> \o Split(SubSeq(s, k + 1, Len(s)), d)

\* list[i] with Python's indexing: negative i counts from the end
InRange(seq, i) == -Len(seq) <= i /\ i < Len(seq)
PyIndex(seq, i) == IF i >= 0 THEN seq[i + 1] ELSE seq[Len(seq) + i + 1]

\* str(n) for an integer n
RECURSIVE NatStr(_)
NatStr(n) == IF n < 10 THEN <<Digits[n + 1]>> ELSE NatStr(n \div 10) \o <<Digits[(n % 10) + 1]>>
IntStr(n) == IF n < 0 THEN <<"-">> \o NatStr(-n) ELSE NatStr(n)

(***************************************************************************)
(* int(s) and float(s).                                                    *)
(***************************************************************************)
\* a run of digits in which single underscores may separate digits
DigitRun(s) ==
  /\ Len(s) > 0
  /\ IsDigit(s[1]) /\ IsDigit(s[Len(s)])
  /\ \A i \in 1..Len(s) : IsDigit(s[i]) \/ s[i] = "_"
  /\ \A i \in 1..(Len(s) - 1) : ~(s[i] = "_" /\ s[i + 1] = "_")

OnlyDigits(s) == SelectSeq(s, IsDigit)

RECURSIVE DigitsValue(_)
DigitsValue(s) ==
  IF Len(s) = 0 THEN 0
  ELSE 10 * DigitsValue(SubSeq(s, 1, Len(s) - 1)) + DigitVal(s[Len(s)])

HasSign(s) == Len(s) > 0 /\ s[1] \in {"+", "-"}
Unsigned(s) == IF HasSign(s) THEN Tail(s) ELSE s
IsNeg(s) == Len(s) > 0 /\ s[1] = "-"

\* int(s): [ok |-> FALSE] stands for ValueError
IntParse(s) ==
  LET t == Strip(s)
      body == Unsigned(t)
  IN  IF DigitRun(body)
      THEN [ok |-> TRUE,
            val |-> IF IsNeg(t) THEN -DigitsValue(OnlyDigits(body))
                    ELSE DigitsValue(OnlyDigits(body))]
      ELSE [ok |-> FALSE, val |-> 0]

\* a float as the script sees it: kind "nan", "inf", "zero", or "num" with the
\* decimal value mant * 10^scale (mant without trailing zeros)
RECURSIVE Normal(_, _)
Normal(mant, scale) ==
  IF mant # 0 /\ mant % 10 = 0 THEN Normal(mant \div 10, scale + 1)
  ELSE [mant |-> mant, scale |-> scale]

\* decimal exponent of mant * 10^scale, mant > 0: the value is in [10^e, 10^(e+1))
DecExp(mant, scale) == Len(NatStr(mant)) + scale - 1

\* the smallest and largest decimal exponents of a finite non-zero double
\* (values below 10^MinDecExp round to 0.0, values from 10^(MaxDecExp+1) to inf)
MinDecExp == -324
MaxDecExp == 308

Rounded(neg, mant, scale) ==
  LET n == Normal(mant, scale)
  IN  IF mant = 0 \/ DecExp(n.mant, n.scale) < MinDecExp
      THEN [kind |-> "zero", neg |-> neg, mant |-> 0, scale |-> 0]
      ELSE IF DecExp(n.mant, n.scale) > MaxDecExp
      THEN [kind |-> "inf", neg |-> neg, mant |-> 0, scale |-> 0]
      ELSE [kind |-> "num", neg |-> neg, mant |-> n.mant, scale |-> n.scale]

S_inf == <<"i","n","f">>
S_infinity == <<"i","n","f","i","n","i","t","y">>
S_nan == <<"n","a","n">>

FirstPos(s, c) == CHOOSE i \in 1..Len(s) : s[i] = c /\ \A j \in 1..(i - 1) : s[j] # c
Has(s, c) == \E i \in 1..Len(s) : s[i] = c

\* float(s): [ok |-> FALSE] stands for ValueError
FloatParse(s) ==
  LET t == Strip(s)
      neg == IsNeg(t)
      body == Unsigned(t)
      lb == Lower(body)
      hasExp == Has(lb, "e")
      mpart == IF hasExp THEN SubSeq(body, 1, FirstPos(lb, "e") - 1) ELSE body
      epart == IF hasExp THEN SubSeq(body, FirstPos(lb, "e") + 1, Len(body)) ELSE <<>>
      expOk == ~hasExp \/ DigitRun(Unsigned(epart))
      expVal == IF ~hasExp THEN 0
                ELSE IF IsNeg(epart) THEN -DigitsValue(OnlyDigits(Unsigned(epart)))
                ELSE DigitsValue(OnlyDigits(Unsigned(epart)))
      hasDot == Has(mpart, ".")
      ip == IF hasDot THEN SubSeq(mpart, 1, FirstPos(mpart, ".") - 1) ELSE mpart
      fp == IF hasDot THEN SubSeq(mpart, FirstPos(mpart, ".") + 1, Len(mpart)) ELSE <<>>
      mantOk == /\ ip = <<>> \/ DigitRun(ip)
                /\ fp = <<>> \/ DigitRun(fp)
                /\ ~(ip = <<>> /\ fp = <<>>)
      bad == [ok |-> FALSE, val |-> [kind |-> "nan", neg |-> FALSE, mant |-> 0, scale |-> 0]]
  IN  IF lb \in {S_inf, S_infinity}
      THEN [ok |-> TRUE, val |-> [kind |-> "inf", neg |-> neg, mant |-> 0, scale |-> 0]]
      ELSE IF lb = S_nan
      THEN [ok |-> TRUE, val |-> [kind |-> "nan", neg |-> neg, mant |-> 0, scale |-> 0]]
      ELSE IF mantOk /\ expOk
      THEN [ok |-> TRUE,
            val |-> Rounded(neg, DigitsValue(OnlyDigits(ip) \o OnlyDigits(fp)),
                            expVal - Len(OnlyDigits(fp)))]
      ELSE bad

\* p <= 0.0 on floats (nan compares false; -0.0 <= 0.0 is true)
LeZero(v) ==
  \/ v.kind = "zero"
  \/ v.kind \in {"num", "inf"} /\ v.neg

PosInf == [kind |-> "inf", neg |-> FALSE, mant |-> 0, scale |-> 0]

\* -math.log10(v) for v > 0 or nan.  The logarithm of a power of ten is exact;
\* any other logarithm is kept symbolically (kind "neglog" of the argument).
NegLog10(v) ==
  IF v.kind = "nan" THEN v
  ELSE IF v.kind = "inf" THEN [kind |-> "inf", neg |-> TRUE, mant |-> 0, scale |-> 0]
  ELSE IF v.mant = 1 /\ v.scale = 0
  THEN [kind |-> "zero", neg |-> TRUE, mant |-> 0, scale |-> 0]
  ELSE IF v.mant = 1
  THEN [kind |-> "num", neg |-> v.scale > 0,
        mant |-> IF v.scale > 0 THEN v.scale ELSE -v.scale, scale |-> 0]
  ELSE [kind |-> "neglog", neg |-> FALSE, mant |-> v.mant, scale |-> v.scale]

safe_neglog10(p) == IF LeZero(p) THEN PosInf ELSE NegLog10(p)

\* str(x) for a float x produced above
FloatStr(x) ==
  LET sign == IF x.neg THEN <<"-">> ELSE <<>>
  IN  CASE x.kind = "inf" -> sign \o S_inf
        [] x.kind = "nan" -> S_nan
        [] x.kind = "zero" -> sign \o <<"0", ".", "0">>
        [] x.kind = "num" -> sign \o NatStr(x.mant) \o <<".", "0">>
        [] x.kind = "neglog" ->
             <<"-","l","o","g","1","0","(">> \o NatStr(x.mant) \o <<"e">>
               \o IntStr(x.scale) \o <<")">>

(***************************************************************************)
(* The program.  A line of text is the sequence of its tab-separated       *)
(* fields (what line.split("\t") gives); a field is a string.              *)
(***************************************************************************)
VARIABLES
  file,        \* the input file: its lines, blank ones included
  args,        \* the parsed command line
  pc,          \* where main() is: "read", "resolve", "rows", "write", "report", "done", "failed"
  error,       \* the reason of the SystemExit, "" while there is none
  lines,       \* the non-blank lines
  header,      \* lines[0].split("\t")
  col_index,   \* column name -> 0-based index
  pcol,        \* the p-value column's name
  var_i, p_i,  \* the two resolved 0-based column indices
  out_rows,    \* the output lines collected so far
  bad_bp, bad_p,
  ln,          \* 1-based position, in lines, of the loop's next row
  outFile,     \* the output file: whether it was opened, and its lines
  stderr       \* the diagnostics written

vars == <<file, args, pc, error, lines, header, col_index, pcol, var_i, p_i,
          out_rows, bad_bp, bad_p, ln, outFile, stderr>>

S_CHR == <<"#","C","H","R">>
S_SNP == <<"S","N","P">>
S_BP == <<"B","P">>
S_minLOG10P == <<"m","i","n","L","O","G","1","0","(","P",")">>
S_log10p == <<"l","o","g","1","0","(","p",")">>
S_r2 == <<"r","^","2">>
DEFAULT_HEADER == <<S_CHR, S_SNP, S_BP, S_minLOG10P, S_log10p, S_r2>>

S_variant == <<"v","a","r","i","a","n","t">>
S_lrt_pvalue == <<"l","r","t","-","p","v","a","l","u","e">>
S_pvalue == <<"p","v","a","l","u","e">>
S_p_value == <<"p","-","v","a","l","u","e">>
S_pval == <<"p","v","a","l">>
S_wald_pvalue == <<"w","a","l","d","-","p","v","a","l","u","e">>
S_score_pvalue == <<"s","c","o","r","e","-","p","v","a","l","u","e">>
S_filter_pvalue == <<"f","i","l","t","e","r","-","p","v","a","l","u","e">>
S_p == <<"p">>

\* parse_args(): the defaults of the options the model does not vary
DefaultArgs ==
  [chr_index |-> <<"2","6">>, variant_col |-> S_variant, pcol |-> None,
   variant_delim |-> "_", bp_field_index |-> 1, snp_name |-> <<".">>,
   r2 |-> <<"0">>, skip_nonpositive_p |-> FALSE, allow_missing_bp |-> FALSE]

\* the candidates of detect_pcol, in priority order
candidates ==
  <<S_lrt_pvalue, S_pvalue, S_p_value, S_pval, S_wald_pvalue, S_score_pvalue,
    S_filter_pvalue>>

Range(seq) == {seq[i] : i \in 1..Len(seq)}
LastPos(seq, x) == CHOOSE i \in 1..Len(seq) : seq[i] = x /\ \A j \in (i + 1)..Len(seq) : seq[j] # x

\* {h.lower(): h for h in header}: a later column overwrites an earlier one
LowerMap(hdr) ==
  [l \in {Lower(h) : h \in Range(hdr)} |->
     hdr[CHOOSE i \in 1..Len(hdr) :
           Lower(hdr[i]) = l /\ \A j \in (i + 1)..Len(hdr) : Lower(hdr[j]) # l]]

\* the heuristic of detect_pcol's second loop
Heuristic(h) == Contains(Lower(h), S_pvalue) \/ Lower(h) \in {S_p, S_pval}

\* detect_pcol taking the first column, in header order, that is a candidate
detect_pcol_HeaderOrder(hdr) ==
  LET hitN == {i \in 1..Len(hdr) : Lower(hdr[i]) \in Range(candidates)}
      hitH == {i \in 1..Len(hdr) : Heuristic(hdr[i])}
  IN  IF hitN # {}
      THEN hdr[CHOOSE i \in hitN : \A j \in hitN : i <= j]
      ELSE IF hitH # {}
      THEN hdr[CHOOSE i \in hitH : \A j \in hitH : i <= j]
      ELSE None

detect_pcol(hdr) ==
  LET lower == LowerMap(hdr)
      hitC == {k \in 1..Len(candidates) : candidates[k] \in DOMAIN lower}
      hitH == {i \in 1..Len(hdr) : Heuristic(hdr[i])}
  IN  IF hitC # {}
      THEN lower[candidates[CHOOSE k \in hitC : \A m \in hitC : k <= m]]
      ELSE IF hitH # {}
      THEN hdr[CHOOSE i \in hitH : \A j \in hitH : i <= j]
      ELSE None

\* {name: i for i, name in enumerate(header)}
ColIndex(hdr) == [n \in Range(hdr) |-> LastPos(hdr, n) - 1]

\* `if ln.strip()` fails: the line holds white space only
IsBlank(line) == \A k \in 1..Len(line) : Strip(line[k]) = <<>>
NonBlank(line) == ~IsBlank(line)

\* with open(args.pyseer) ... ; if not lines: raise SystemExit
ReadInput ==
  /\ pc = "read"
  /\ lines' = SelectSeq(file, NonBlank)
  /\ IF lines' = <<>>
     THEN pc' = "failed" /\ error' = "empty_input"
     ELSE pc' = "resolve" /\ UNCHANGED error
  /\ UNCHANGED <<file, args, header, col_index, pcol, var_i, p_i, out_rows,
                 bad_bp, bad_p, ln, outFile, stderr>>

\* pcol = args.pcol; if pcol is None: pcol = detect_pcol(header)
ChoosePcol(hdr) == IF args.pcol = None THEN detect_pcol(hdr) ELSE args.pcol

\* header, col_index, the two column checks, var_i, p_i, out_rows, counters
ResolveColumns ==
  /\ pc = "resolve"
  /\ header' = lines[1]
  /\ col_index' = ColIndex(header')
  /\ IF args.variant_col \notin DOMAIN col_index'
     THEN /\ pc' = "failed" /\ error' = "no_variant_col"
          /\ UNCHANGED <<pcol, var_i, p_i, out_rows, ln>>
     ELSE /\ pcol' = ChoosePcol(header')
          /\ IF pcol' = None \/ pcol' \notin DOMAIN col_index'
             THEN /\ pc' = "failed" /\ error' = "no_pcol"
                  /\ UNCHANGED <<var_i, p_i, out_rows, ln>>
             ELSE /\ var_i' = col_index'[args.variant_col]
                  /\ p_i' = col_index'[pcol']
                  /\ out_rows' = <<DEFAULT_HEADER>>
                  /\ ln' = 2
                  /\ pc' = "rows"
                  /\ UNCHANGED error
  /\ bad_bp' = 0
  /\ bad_p' = 0
  /\ UNCHANGED <<file, args, lines, outFile, stderr>>

(***************************************************************************)
(* One pass of the loop `for ln in lines[1:]`.  What the body does with a  *)
(* row is a record: kind "short" (continue at the length check), "skip"    *)
(* (continue after a counter was raised), "abort" (SystemExit) or "emit"   *)
(* (a line appended to out_rows); dbp and dp are what is added to bad_bp   *)
(* and bad_p; err names the SystemExit; line is the appended line.         *)
(***************************************************************************)
NoLine == <<>>

\* if len(parts) <= max(var_i, p_i): continue
TooShort(parts) == Len(parts) <= Max(var_i, p_i)

\* except IndexError / except ValueError of the BP parse
OnBadBp(err) ==
  [kind |-> IF args.allow_missing_bp THEN "skip" ELSE "abort",
   dbp |-> 1, dp |-> 0, err |-> err, line |-> NoLine]

\* the non-numeric p-value gated by the other switch
OnNonNumericPWrongSwitch ==
  [kind |-> IF args.allow_missing_bp THEN "skip" ELSE "abort",
   dbp |-> 0, dp |-> 1, err |-> "p_not_numeric", line |-> NoLine]

\* except ValueError of float(p_str)
OnNonNumericP ==
  [kind |-> IF args.skip_nonpositive_p THEN "skip" ELSE "abort",
   dbp |-> 0, dp |-> 1, err |-> "p_not_numeric", line |-> NoLine]

\* the fifth field written as log10(p), the fourth field's opposite
OutputLineSignedLog(bp_int, neglog) ==
  <<args.chr_index, args.snp_name, IntStr(bp_int), FloatStr(neglog),
    FloatStr([neglog EXCEPT !.neg = ~@]), args.r2>>

\* the line appended to out_rows
OutputLine(bp_int, neglog) ==
  <<args.chr_index, args.snp_name, IntStr(bp_int), FloatStr(neglog),
    FloatStr(neglog), args.r2>>

\* p <= 0 with the `continue` missing: counted, and emitted all the same
OnNonPositivePKeepsRow(bp_int) ==
  [kind |-> "emit", dbp |-> 0, dp |-> 1, err |-> "",
   line |-> OutputLine(bp_int, PosInf)]

\* p <= 0 failing the run in strict mode
OnNonPositivePErrors(bp_int) ==
  [kind |-> IF args.skip_nonpositive_p THEN "skip" ELSE "abort",
   dbp |-> 0, dp |-> 1, err |-> "p_not_positive", line |-> NoLine]

\* p <= 0 dropped whatever the switch
OnNonPositivePDrops(bp_int) ==
  [kind |-> "skip", dbp |-> 0, dp |-> 1, err |-> "", line |-> NoLine]

\* p <= 0 counted only when the line is dropped
OnNonPositivePUncounted(bp_int) ==
  IF args.skip_nonpositive_p
  THEN [kind |-> "skip", dbp |-> 0, dp |-> 1, err |-> "", line |-> NoLine]
  ELSE [kind |-> "emit", dbp |-> 0, dp |-> 0, err |-> "",
        line |-> OutputLine(bp_int, PosInf)]

\* if p_val <= 0.0: bad_p += 1; continue when skipping, else neglog = inf
OnNonPositiveP(bp_int) ==
  IF args.skip_nonpositive_p
  THEN [kind |-> "skip", dbp |-> 0, dp |-> 1, err |-> "", line |-> NoLine]
  ELSE [kind |-> "emit", dbp |-> 0, dp |-> 1, err |-> "",
        line |-> OutputLine(bp_int, PosInf)]

\* fields = variant.split(delim); bp = fields[args.bp_field_index]
BpFields(variant) == Split(variant, args.variant_delim)
HasBpField(variant) == InRange(BpFields(variant), args.bp_field_index)
BpField(variant) == PyIndex(BpFields(variant), args.bp_field_index)

\* the p-value part of the body, reached with bp_int parsed
PValueStep(p_str, bp_int) ==
  LET p_val == FloatParse(p_str)
  IN  IF ~p_val.ok THEN OnNonNumericP
      ELSE IF LeZero(p_val.val) THEN OnNonPositiveP(bp_int)
      ELSE [kind |-> "emit", dbp |-> 0, dp |-> 0, err |-> "",
            line |-> OutputLine(bp_int, safe_neglog10(p_val.val))]

\* the loop body with the p-value parsed before the position
RowStepPFirst(parts) ==
  IF TooShort(parts)
  THEN [kind |-> "short", dbp |-> 0, dp |-> 0, err |-> "", line |-> NoLine]
  ELSE LET variant == parts[var_i + 1]
           p_str == parts[p_i + 1]
       IN  IF ~FloatParse(p_str).ok THEN OnNonNumericP
           ELSE IF ~HasBpField(variant) THEN OnBadBp("bp_missing")
           ELSE IF ~IntParse(BpField(variant)).ok THEN OnBadBp("bp_not_integer")
           ELSE PValueStep(p_str, IntParse(BpField(variant)).val)

\* the whole loop body on the fields of one line
RowStep(parts) ==
  IF TooShort(parts)
  THEN [kind |-> "short", dbp |-> 0, dp |-> 0, err |-> "", line |-> NoLine]
  ELSE LET variant == parts[var_i + 1]
           p_str == parts[p_i + 1]
       IN  IF ~HasBpField(variant) THEN OnBadBp("bp_missing")
           ELSE IF ~IntParse(BpField(variant)).ok THEN OnBadBp("bp_not_integer")
           ELSE PValueStep(p_str, IntParse(BpField(variant)).val)

ProcessRow ==
  /\ pc = "rows"
  /\ ln <= Len(lines)
  /\ LET r == RowStep(lines[ln])
     IN  /\ bad_bp' = bad_bp + r.dbp
         /\ bad_p' = bad_p + r.dp
         /\ out_rows' = IF r.kind = "emit" THEN Append(out_rows, r.line) ELSE out_rows
         /\ IF r.kind = "abort"
            THEN pc' = "failed" /\ error' = r.err /\ UNCHANGED ln
            ELSE ln' = ln + 1 /\ UNCHANGED <<pc, error>>
  /\ UNCHANGED <<file, args, lines, header, col_index, pcol, var_i, p_i, outFile, stderr>>

\* the output file rewritten while the loop still runs
WriteOutputEager ==
  /\ pc = "rows"
  /\ outFile' = [opened |-> TRUE, content |-> out_rows]
  /\ outFile' # outFile
  /\ pc' = IF ln > Len(lines) THEN "report" ELSE pc
  /\ UNCHANGED <<file, args, error, lines, header, col_index, pcol, var_i, p_i,
                 out_rows, bad_bp, bad_p, ln, stderr>>

\* with open(args.out, "w") as out: out.write("\n".join(out_rows) + "\n")
WriteOutput ==
  /\ pc = "rows"
  /\ ln > Len(lines)
  /\ outFile' = [opened |-> TRUE, content |-> out_rows]
  /\ pc' = "report"
  /\ UNCHANGED <<file, args, error, lines, header, col_index, pcol, var_i, p_i,
                 out_rows, bad_bp, bad_p, ln, stderr>>

\* the [INFO] line and the two [WARN] lines
Diagnostics ==
  <<[tag |-> "INFO", n |-> Len(out_rows) - 1]>>
    \o (IF bad_bp # 0 THEN <<[tag |-> "WARN_BP", n |-> bad_bp]>> ELSE <<>>)
    \o (IF bad_p # 0 THEN <<[tag |-> "WARN_P", n |-> bad_p]>> ELSE <<>>)

Report ==
  /\ pc = "report"
  /\ stderr' = Diagnostics
  /\ pc' = "done"
  /\ UNCHANGED <<file, args, error, lines, header, col_index, pcol, var_i, p_i,
                 out_rows, bad_bp, bad_p, ln, outFile>>

Next == ReadInput \/ ResolveColumns \/ ProcessRow \/ WriteOutput \/ Report

(***************************************************************************)
(* Inputs.                                                                 *)
(***************************************************************************)
SeqsUpTo(S, n) == UNION {[1..k -> S] : k \in 0..n}

V_good == <<"c","_","1","2","_","A">>
V_two == <<"c","_","7">>
V_neg == <<"c","_","-","5">>
V_nofield == <<"c">>
V_nonint == <<"c","_","x">>
Variants == {V_good, V_two, V_neg, V_nofield, V_nonint}

P_001 == <<"0",".","0","1">>
P_05 == <<"0",".","5">>
P_0 == <<"0">>
P_neg == <<"-","1">>
P_NA == <<"N","A">>
P_tiny == <<"1","e","-","4","0","0">>
P_nan == <<"n","a","n">>
PStrs == {P_001, P_05, P_0, P_neg, P_NA, P_tiny, P_nan}

S_beta == <<"b","e","t","a">>
S_PValue == <<"P","V","a","l","u","e">>
S_adj_pvalue == <<"a","d","j","_","p","v","a","l","u","e">>
S_P == <<"P">>

BlankLine == <<<<>>>>

\* a data line under header hdr: v in the variant column(s), p elsewhere
MkRow(hdr, v, p) == [k \in 1..Len(hdr) |-> IF hdr[k] = S_variant THEN v ELSE p]

\* the (variant, p-value) pairs of the data lines that are tried
RowCases ==
  {<<v, P_001>> : v \in Variants} \cup {<<V_good, p>> : p \in PStrs}
    \cup {<<V_nofield, P_NA>>, <<V_nonint, P_0>>}

RowPool(hdr) ==
  {MkRow(hdr, c[1], c[2]) : c \in RowCases}
    \cup {SubSeq(MkRow(hdr, V_nofield, P_NA), 1, Len(hdr) - 1), BlankLine}

RowHeaders == {<<S_variant, S_pvalue>>, <<S_pvalue, S_beta, S_variant>>}

\* headers without a variant column, without a p-value column
BadHeaders == {<<S_beta, S_pvalue>>, <<S_variant, S_beta>>}

Files(hdrs) ==
  {<<>>, BlankLine}
    \cup UNION {{<<hdr>> \o rows : rows \in SeqsUpTo(RowPool(hdr), MaxRows)} : hdr \in hdrs}
    \cup {<<hdr>> \o [k \in 1..n |-> MkRow(hdr, V_good, P_001)] :
            hdr \in BadHeaders, n \in 0..MaxRows}

InitProgram ==
  /\ pc = "read"
  /\ error = ""
  /\ lines = <<>>
  /\ header = <<>>
  /\ col_index = <<>>
  /\ pcol = None
  /\ var_i = -1
  /\ p_i = -1
  /\ out_rows = <<>>
  /\ bad_bp = 0
  /\ bad_p = 0
  /\ ln = 0
  /\ outFile = [opened |-> FALSE, content |-> <<>>]
  /\ stderr = <<>>

\* rows of every kind under two usable and two unusable column layouts and all
\* switch settings
Init ==
  /\ file \in Files(RowHeaders)
  /\ args \in {[DefaultArgs EXCEPT !.bp_field_index = b, !.skip_nonpositive_p = s,
                                   !.allow_missing_bp = a] :
                 b \in {1, -1}, s \in BOOLEAN, a \in BOOLEAN}
  /\ InitProgram

Spec == Init /\ [][Next]_vars

\* headers of every shape, with and without --pcol, over plain rows
ColNames == {S_variant, S_lrt_pvalue, S_pvalue, S_PValue, S_adj_pvalue, S_P, S_beta}
ColHeaders == UNION {[1..k -> ColNames] : k \in 1..MaxCols}
PlainFiles ==
  {<<>>} \cup {<<hdr>> \o [k \in 1..n |-> MkRow(hdr, V_good, P_001)] :
                 hdr \in ColHeaders, n \in 0..MaxRows}

InitCols ==
  /\ file \in PlainFiles
  /\ args \in {[DefaultArgs EXCEPT !.pcol = c] : c \in {None, S_pvalue}}
  /\ InitProgram

SpecCols == InitCols /\ [][Next]_vars

(***************************************************************************)
(* Properties.  What a data line is, read off the line itself.             *)
(***************************************************************************)
Succeeded == pc \in {"report", "done"}
Processing == pc = "rows" /\ ln <= Len(lines)
Row == lines[ln]

Enough(row) == Len(row) > var_i /\ Len(row) > p_i
PosOk(row) ==
  /\ HasBpField(row[var_i + 1])
  /\ IntParse(BpField(row[var_i + 1])).ok
PNum(row) == FloatParse(row[p_i + 1]).ok
PNonPos(row) == PNum(row) /\ LeZero(FloatParse(row[p_i + 1]).val)

\* the three ways a line is skipped, and the lines that are emitted
SkippedShort(row) == ~Enough(row)
SkippedPos(row) == Enough(row) /\ ~PosOk(row)
SkippedP(row) ==
  /\ Enough(row) /\ PosOk(row)
  /\ ~PNum(row) \/ (PNonPos(row) /\ args.skip_nonpositive_p)
EmitsRow(row) == ~SkippedShort(row) /\ ~SkippedPos(row) /\ ~SkippedP(row)

DataLines == 2..Len(lines)
NShort == Cardinality({k \in DataLines : SkippedShort(lines[k])})
NSkippedPos == Cardinality({k \in DataLines : SkippedPos(lines[k])})
NSkippedP == Cardinality({k \in DataLines : SkippedP(lines[k])})
NEmits == Cardinality({k \in DataLines : EmitsRow(lines[k])})

\* what one pass of the loop did
Dropped == ln' = ln + 1 /\ out_rows' = out_rows /\ pc' = "rows"
Aborted == pc' = "failed"
Emitted == ln' = ln + 1 /\ Len(out_rows') = Len(out_rows) + 1 /\ pc' = "rows"

\* C1: the output file is opened only once every data line has been processed
\* without a SystemExit; a run that fails, for whatever reason and on whatever
\* line, leaves the file unopened.
C1_OutputOnlyAfterAllRows ==
  /\ pc = "failed" => ~outFile.opened /\ error # ""
  /\ outFile.opened => Succeeded /\ ln > Len(lines) /\ error = ""
  /\ ~outFile.opened => outFile.content = <<>>

\* C1 witness: a strict run that fails on its last line, with an output line
\* already collected in memory.
C1_Witness ==
  /\ pc = "failed" /\ error = "p_not_numeric"
  /\ ln = Len(lines) /\ Len(lines) = 3
  /\ Len(out_rows) = 2

\* the text of the transformed value of an emitted line
ExpectedToken(row) ==
  IF PNonPos(row) THEN S_inf ELSE FloatStr(NegLog10(FloatParse(row[p_i + 1]).val))
ExpectedBp(row) == IntStr(IntParse(BpField(row[var_i + 1])).val)

\* C2: the file written is the fixed header line followed by one six-field line
\* per emitted input line, in input order: the chromosome label, the site label,
\* the parsed position, the transformed value twice, the r2 placeholder.
C2_OutputShape ==
  outFile.opened =>
    LET data == SelectSeq(Tail(lines), EmitsRow)
        content == outFile.content
    IN  /\ Len(content) = 1 + Len(data)
        /\ content[1] = DEFAULT_HEADER
        /\ \A k \in 1..Len(data) :
             /\ Len(content[k + 1]) = 6
             /\ content[k + 1][1] = args.chr_index
             /\ content[k + 1][2] = args.snp_name
             /\ content[k + 1][3] = ExpectedBp(data[k])
             /\ content[k + 1][4] = ExpectedToken(data[k])
             /\ content[k + 1][5] = content[k + 1][4]
             /\ content[k + 1][6] = args.r2

\* C2 witness: a finished run that wrote two data lines with different
\* positions and different values.
C2_Witness ==
  /\ pc = "done"
  /\ Len(outFile.content) = 3
  /\ outFile.content[2][3] # outFile.content[3][3]
  /\ outFile.content[2][4] # outFile.content[3][4]

\* C3: in a successful run every data line is emitted or skipped for exactly
\* one reason, and the number of output data lines is the number of input data
\* lines minus the lines skipped as short, for the position, for the p-value.
C3_RowCount ==
  Succeeded =>
    /\ Len(out_rows) - 1 =
         (Len(lines) - 1) - NShort - NSkippedPos - NSkippedP
    /\ Len(out_rows) - 1 = NEmits
    /\ \A k \in DataLines : SkippedPos(lines[k]) => args.allow_missing_bp
    /\ \A k \in DataLines :
         (Enough(lines[k]) /\ PosOk(lines[k]) /\ ~PNum(lines[k])) => args.skip_nonpositive_p

\* C3 witness: a successful run with one line skipped and one emitted.
C3_Witness ==
  /\ pc = "done"
  /\ Len(lines) = 3
  /\ Len(out_rows) = 2
  /\ NSkippedP = 1

\* C4: without --pcol, the p-value column is named by the first candidate of
\* the priority list that some column matches case-insensitively, wherever
\* that column stands; failing that, it is the first column, in header order,
\* whose lower-cased name contains "pvalue" or is "p" or "pval"; failing that,
\* the run fails.  p_i is the index of a column of the chosen name.
C4_PcolResolution ==
  (args.pcol = None /\ pc \notin {"read", "resolve"} /\ error # "empty_input") =>
    LET hdr == lines[1]
        low == [k \in 1..Len(hdr) |-> Lower(hdr[k])]
        byName == {c \in 1..Len(candidates) : \E k \in 1..Len(hdr) : low[k] = candidates[c]}
        byLook == {k \in 1..Len(hdr) :
                     Contains(low[k], S_pvalue) \/ low[k] = S_p \/ low[k] = S_pval}
    IN  IF \A k \in 1..Len(hdr) : hdr[k] # args.variant_col
        THEN pc = "failed" /\ error = "no_variant_col"
        ELSE IF byName # {}
        THEN /\ error # "no_pcol"
             /\ Lower(pcol) = candidates[CHOOSE c \in byName : \A d \in byName : c <= d]
             /\ hdr[p_i + 1] = pcol
        ELSE IF byLook # {}
        THEN /\ error # "no_pcol"
             /\ pcol = hdr[CHOOSE k \in byLook : \A j \in byLook : k <= j]
             /\ hdr[p_i + 1] = pcol
        ELSE pc = "failed" /\ error = "no_pcol"

\* C4 witness: lrt-pvalue is chosen although a pvalue column stands before it.
C4_Witness ==
  /\ pc = "done" /\ args.pcol = None
  /\ pcol = S_lrt_pvalue /\ p_i = 2
  /\ header[1] = S_pvalue

\* C5 as claimed: a line whose variant has no position field or a non-integer
\* one aborts unless allow-missing-bp is set, and is then dropped with bad_bp
\* raised by one; a line whose p-value text is not numeric aborts unless
\* skip-nonpositive-p is set, and is then (like a numeric p <= 0) dropped with
\* bad_p raised by one.
C5_AsClaimed ==
  [][Processing =>
       /\ (Len(Row) > var_i /\ ~PosOk(Row)) =>
            IF args.allow_missing_bp THEN Dropped /\ bad_bp' = bad_bp + 1 ELSE Aborted
       /\ (Len(Row) > p_i /\ ~PNum(Row)) =>
            IF args.skip_nonpositive_p THEN Dropped /\ bad_p' = bad_p + 1 ELSE Aborted
       /\ (Len(Row) > p_i /\ PNonPos(Row) /\ args.skip_nonpositive_p) =>
            Dropped /\ bad_p' = bad_p + 1]_vars

\* C5 amended: the same, for the lines that reach the check: a line with
\* enough fields for the position checks, a line with enough fields and a
\* parsable position for the p-value checks.
C5_GatedBySwitch ==
  [][Processing =>
       /\ (Enough(Row) /\ ~PosOk(Row)) =>
            /\ bad_bp' = bad_bp + 1 /\ bad_p' = bad_p
            /\ IF args.allow_missing_bp THEN Dropped ELSE Aborted
       /\ (Enough(Row) /\ PosOk(Row) /\ ~PNum(Row)) =>
            /\ bad_p' = bad_p + 1 /\ bad_bp' = bad_bp
            /\ IF args.skip_nonpositive_p THEN Dropped ELSE Aborted
       /\ (Enough(Row) /\ PosOk(Row) /\ PNonPos(Row) /\ args.skip_nonpositive_p) =>
            Dropped /\ bad_p' = bad_p + 1 /\ bad_bp' = bad_bp]_vars

\* C5 witness: with allow-missing-bp, a line without a position field was
\* dropped and counted, and the loop goes on.
C5_Witness ==
  /\ pc = "rows" /\ ln = 3
  /\ args.allow_missing_bp
  /\ Enough(lines[2]) /\ ~HasBpField(lines[2][var_i + 1])
  /\ bad_bp = 1 /\ bad_p = 0
  /\ out_rows = <<DEFAULT_HEADER>>

LastLine(rows) == rows[Len(rows)]

HasWarning(tag) == \E k \in 1..Len(stderr) : stderr[k].tag = tag
WarnedCount(tag) == stderr[CHOOSE k \in 1..Len(stderr) : stderr[k].tag = tag].n
DroppedRows == (Len(lines) - 1) - (Len(out_rows) - 1)
BadPRow(row) == Enough(row) /\ PosOk(row) /\ (~PNum(row) \/ PNonPos(row))
NBadP == Cardinality({k \in DataLines : BadPRow(lines[k])})

\* C8 as claimed: at the end of a successful run bad_bp is the number of lines
\* dropped for the position and bad_p the number of lines dropped for the
\* p-value, and each warning is written exactly when that number is not zero.
C8_AsClaimed ==
  pc = "done" =>
    LET droppedBp == NSkippedPos
        droppedP == DroppedRows - NShort - NSkippedPos
    IN  /\ bad_bp = droppedBp
        /\ bad_p = droppedP
        /\ HasWarning("WARN_BP") <=> droppedBp > 0
        /\ HasWarning("WARN_P") <=> droppedP > 0

\* C8 amended: bad_bp is the number of lines dropped for the position; bad_p
\* is the number of lines that reached the p-value checks with a p-value that
\* is not numeric or is <= 0, dropped or (skip-nonpositive-p unset) emitted
\* as "inf"; each warning is written exactly when its counter is not zero and
\* reports that counter.
C8_WarningCounts ==
  pc = "done" =>
    /\ bad_bp = NSkippedPos
    /\ bad_p = NBadP
    /\ HasWarning("WARN_BP") <=> NSkippedPos > 0
    /\ HasWarning("WARN_P") <=> NBadP > 0
    /\ HasWarning("WARN_BP") => WarnedCount("WARN_BP") = bad_bp
    /\ HasWarning("WARN_P") => WarnedCount("WARN_P") = bad_p

\* C8 witness: a run that dropped no line wrote the p-value warning.
C8_Witness ==
  /\ pc = "done"
  /\ Len(lines) = 3 /\ Len(out_rows) = 3
  /\ bad_p = 1
  /\ HasWarning("WARN_P")

\* C9 as claimed: the position of an emitted line is a non-negative integer,
\* the value of the variant's field at the configured index counted from the
\* start of the split identifier.
C9_AsClaimed ==
  [][(Processing /\ Len(out_rows') = Len(out_rows) + 1) =>
       LET fields == BpFields(Row[var_i + 1])
           k == args.bp_field_index
       IN  /\ 0 <= k /\ k < Len(fields)
           /\ IntParse(fields[k + 1]).ok
           /\ IntParse(fields[k + 1]).val >= 0
           /\ LastLine(out_rows')[3] = IntStr(IntParse(fields[k + 1]).val)]_vars

\* C10: the checks of a line run in the order length, position, p-value,
\* p <= 0, and the first that fails decides: a short line is passed over
\* without a counter and without a failure; a line with a bad position is a
\* position error only, whatever its p-value; a counter is raised only by the
\* check that fails, so a line raises at most one counter, by one.
C10_CheckOrder ==
  [][Processing =>
       /\ bad_bp' - bad_bp \in {0, 1}
       /\ bad_p' - bad_p \in {0, 1}
       /\ ~(bad_bp' # bad_bp /\ bad_p' # bad_p)
       /\ ~Enough(Row) => Dropped /\ bad_bp' = bad_bp /\ bad_p' = bad_p
       /\ (Enough(Row) /\ ~PosOk(Row)) =>
            /\ bad_bp' = bad_bp + 1 /\ bad_p' = bad_p
            /\ args.allow_missing_bp => Dropped
            /\ Aborted => error' \in {"bp_missing", "bp_not_integer"}
       /\ (Enough(Row) /\ PosOk(Row) /\ ~PNum(Row)) =>
            /\ bad_bp' = bad_bp /\ bad_p' = bad_p + 1
            /\ Aborted => error' = "p_not_numeric"
       /\ (Enough(Row) /\ PosOk(Row) /\ PNonPos(Row)) =>
            bad_bp' = bad_bp /\ bad_p' = bad_p + 1
       /\ (Enough(Row) /\ PosOk(Row) /\ PNum(Row) /\ ~PNonPos(Row)) =>
            Emitted /\ bad_bp' = bad_bp /\ bad_p' = bad_p]_vars

\* C10 witness: with allow-missing-bp set and skip-nonpositive-p unset, a line
\* with a bad position and a non-numeric p-value was dropped as a position
\* error.
C10_Witness ==
  /\ pc = "rows" /\ ln = 3
  /\ args.allow_missing_bp /\ ~args.skip_nonpositive_p
  /\ Enough(lines[2]) /\ ~PosOk(lines[2]) /\ ~PNum(lines[2])
  /\ bad_bp = 1 /\ bad_p = 0

====
